---- MODULE Spec2Model ----
(***************************************************************************)
(* ReadZen document pipeline: the document table, the background           *)
(* processing job (process_document), the lazy page cache (get_page) and   *)
(* the other document endpoints of app/api/endpoints/documents.py.         *)
(*                                                                         *)
(* Every request runs in its own database session, so a handler works on   *)
(* its own copy of the row between the SELECT that loads it and the commit *)
(* that flushes it.  A handler step of the model is the code between two   *)
(* awaits that touch the database or the worker executor.                  *)
(*                                                                         *)
(* The calls of the extraction provider (get_page_count, extract_page) run *)
(* in the executor; their result is an input of the step that awaits them: *)
(* a value, or an exception.  The provider class of services/ocr/service.py*)
(* defines neither method, so with it the attribute lookup raises inside   *)
(* the try block: that is the exception outcome.  The values a provider    *)
(* returns are taken from the capability set of the specification          *)
(* (count_pages, extract_one_page).  A commit is an input too: it succeeds *)
(* or it raises, and it raises when the row it updates is gone.            *)
(*                                                                         *)
(* Document ids are the identities of the documents: an id is given to one *)
(* upload only.                                                            *)
(*                                                                         *)
(* The functions of services/ocr/service.py on texts and boxes             *)
(* (_is_header_or_footer, _clean_text, _detect_alignment, extract_text)    *)
(* are operators; SpecService starts from a call of one of them with its   *)
(* arguments and its step is the return of that call.                      *)
(***************************************************************************)
EXTENDS Integers, Sequences, FiniteSets, TLC

\* ---- bounds ----
MaxDocs == 1
MaxReqs == 2
MaxPages == 3
MaxHtml == 2

Ids == 1..MaxDocs
Reqs == 1..MaxReqs
Htmls == 1..MaxHtml
\* results of the page-count probe; 0 is an empty document
PageCounts == 0..MaxPages
\* page_number path parameter of get_page
PageNumbers == (0 - 1)..MaxPages

\* Python None for the nullable columns and the absent response fields
None == 0 - 1

\* what ocr_service.get_page_count(file_path) returns when it returns
get_page_count == PageCounts

\* what ocr_service.extract_page(file_path, page_number) returns when it
\* returns
extract_page == Htmls

\* ---- ProcessingStatus ----
PENDING == "pending"
PROCESSING == "processing"
COMPLETED == "completed"
FAILED == "failed"
ProcessingStatus == {PENDING, PROCESSING, COMPLETED, FAILED}

\* ---- the JSON page mapping: page index -> html ----
EmptyPages == [k \in {} |-> None]

Put(m, i, h) == [k \in (DOMAIN m) \cup {i} |-> IF k = i THEN h ELSE m[k]]

VARIABLES
    rows,             \* ids of the rows of table documents
    nextId,           \* next primary key
    status,           \* Document.status
    page_count,       \* Document.page_count
    extracted_pages,  \* Document.extracted_pages
    extracted_text,   \* Document.extracted_text
    file_path,        \* Document.file_path is set
    files,            \* ids whose uploaded file is on disk
    jpc,              \* position of the background task of each document
    jcount,           \* page_count local of process_document
    jhtml,            \* first_page_html local of process_document
    jfailed,          \* the step of process_document that raised
    pc,               \* position of each request
    req,              \* the request a slot is serving
    loaded,           \* extracted_pages as the request's session loaded it
    resp,             \* the response of the request
    ncalls,           \* extraction calls dispatched by the request
    filled,           \* first content a cache miss returned, per page
    call              \* a call of a function of services/ocr/service.py

dbvars == <<rows, nextId, status, page_count, extracted_pages,
            extracted_text, file_path, files>>
jobvars == <<jpc, jcount, jhtml, jfailed>>
reqvars == <<pc, req, loaded, resp, ncalls>>
vars == <<rows, nextId, status, page_count, extracted_pages, extracted_text,
          file_path, files, jpc, jcount, jhtml, jfailed, pc, req, loaded,
          resp, ncalls, filled, call>>

\* ---- requests and responses ----
NoReq == [op |-> "none", doc |-> None, idx |-> None]

Request(op, d, i) == [op |-> op, doc |-> d, idx |-> i]

NoResp == [code |-> 0, err |-> "", cached |-> FALSE, content |-> None,
           hi |-> None, status |-> "", page_count |-> None,
           pages |-> <<>>, keys |-> {}]

HTTPException(code, err) == [NoResp EXCEPT !.code = code, !.err = err]

NotFound == HTTPException(404, "NotFound")
InvalidState(s) == [HTTPException(400, "InvalidState") EXCEPT !.status = s]
OutOfRange(n) ==
    [HTTPException(400, "OutOfRange") EXCEPT !.page_count = n, !.hi = n - 1]
ServerError == HTTPException(500, "ServerError")

PageResponse(h, cached) ==
    [NoResp EXCEPT !.code = 200, !.content = h, !.cached = cached]

\* ---- the row of a document ----
\* document.page_count or 1
PageCountOr1(n) == IF n = None \/ n = 0 THEN 1 ELSE n

\* page_number < 0 or page_number >= (document.page_count or 1)
InvalidPageNumber(n, i) == i < 0 \/ i >= PageCountOr1(n)

\* the readiness check lets failed documents through
NotReady_FailedOk(s) == s \notin {COMPLETED, FAILED}

\* document.status != ProcessingStatus.COMPLETED.value
NotReady(s) == s # COMPLETED

\* the cache is never consulted
IsCached_Never(m, i) == FALSE

\* page_key in extracted_pages
IsCached(m, i) == i \in DOMAIN m

\* no function of the extraction service is being called
NoCall == [fn |-> "none"]

Init ==
    /\ rows = {}
    /\ nextId = 1
    /\ status = [d \in Ids |-> "none"]
    /\ page_count = [d \in Ids |-> None]
    /\ extracted_pages = [d \in Ids |-> EmptyPages]
    /\ extracted_text = [d \in Ids |-> None]
    /\ file_path = [d \in Ids |-> FALSE]
    /\ files = {}
    /\ jpc = [d \in Ids |-> "none"]
    /\ jcount = [d \in Ids |-> None]
    /\ jhtml = [d \in Ids |-> None]
    /\ jfailed = [d \in Ids |-> "none"]
    /\ pc = [r \in Reqs |-> "idle"]
    /\ req = [r \in Reqs |-> NoReq]
    /\ loaded = [r \in Reqs |-> EmptyPages]
    /\ resp = [r \in Reqs |-> NoResp]
    /\ ncalls = [r \in Reqs |-> 0]
    /\ filled = [d \in Ids |-> EmptyPages]
    /\ call = NoCall

\* the handler returns or raises: the response is on its way to the client
Respond(r, rq, rs) ==
    /\ pc' = [pc EXCEPT ![r] = "responded"]
    /\ req' = [req EXCEPT ![r] = rq]
    /\ resp' = [resp EXCEPT ![r] = rs]
    /\ loaded' = [loaded EXCEPT ![r] = EmptyPages]

\* ---- upload_document ----
upload_document_begin(r, pdf) ==
    /\ UNCHANGED call
    /\ pc[r] = "idle"
    /\ ncalls' = [ncalls EXCEPT ![r] = 0]
    /\ UNCHANGED <<jobvars, filled>>
    /\ IF ~pdf
       THEN /\ Respond(r, Request("upload_document", None, None),
                       HTTPException(400, "OnlyPdf"))
            /\ UNCHANGED dbvars
       ELSE /\ nextId \in Ids
            /\ \E committed \in BOOLEAN :
                 IF committed
                 THEN /\ rows' = rows \cup {nextId}
                      /\ nextId' = nextId + 1
                      /\ status' = [status EXCEPT ![nextId] = PENDING]
                      /\ pc' = [pc EXCEPT ![r] = "saving"]
                      /\ req' = [req EXCEPT ![r] =
                                   Request("upload_document", nextId, None)]
                      /\ UNCHANGED <<page_count, extracted_pages,
                                     extracted_text, file_path, files,
                                     loaded, resp>>
                 ELSE /\ Respond(r, Request("upload_document", None, None),
                                 ServerError)
                      /\ UNCHANGED dbvars

\* the row of a deleted document
DropRow(d) ==
    /\ rows' = rows \ {d}
    /\ status' = [status EXCEPT ![d] = "none"]
    /\ page_count' = [page_count EXCEPT ![d] = None]
    /\ extracted_pages' = [extracted_pages EXCEPT ![d] = EmptyPages]
    /\ extracted_text' = [extracted_text EXCEPT ![d] = None]
    /\ file_path' = [file_path EXCEPT ![d] = FALSE]
    /\ filled' = [filled EXCEPT ![d] = EmptyPages]

\* the upload answers 202 without handing the document to a background task
upload_document_finish_NoTask(r) ==
    /\ UNCHANGED call
    /\ pc[r] = "saving"
    /\ UNCHANGED <<nextId, jobvars, ncalls>>
    /\ LET d == req[r].doc IN
       \E saved \in BOOLEAN, committed \in BOOLEAN, removed \in BOOLEAN :
         /\ files' = IF saved THEN files \cup {d} ELSE files
         /\ IF saved /\ committed /\ d \in rows
            THEN /\ file_path' = [file_path EXCEPT ![d] = TRUE]
                 /\ Respond(r, req[r],
                            [NoResp EXCEPT !.code = 202, !.status = PENDING])
                 /\ UNCHANGED <<rows, status, page_count, extracted_pages,
                                extracted_text, filled>>
            ELSE /\ Respond(r, req[r], ServerError)
                 /\ IF removed /\ d \in rows
                    THEN DropRow(d)
                    ELSE UNCHANGED <<rows, status, page_count,
                                     extracted_pages, extracted_text,
                                     file_path, filled>>

upload_document_finish(r) ==
    /\ UNCHANGED call
    /\ pc[r] = "saving"
    /\ UNCHANGED <<nextId, jcount, jhtml, jfailed, ncalls>>
    /\ LET d == req[r].doc IN
       \E saved \in BOOLEAN, committed \in BOOLEAN, removed \in BOOLEAN :
         /\ files' = IF saved THEN files \cup {d} ELSE files
         /\ IF saved /\ committed /\ d \in rows
            THEN /\ file_path' = [file_path EXCEPT ![d] = TRUE]
                 /\ jpc' = [jpc EXCEPT ![d] = "scheduled"]
                 /\ Respond(r, req[r],
                            [NoResp EXCEPT !.code = 202, !.status = PENDING])
                 /\ UNCHANGED <<rows, status, page_count, extracted_pages,
                                extracted_text, filled>>
            ELSE /\ Respond(r, req[r], ServerError)
                 /\ UNCHANGED jpc
                 /\ IF removed /\ d \in rows
                    THEN DropRow(d)
                    ELSE UNCHANGED <<rows, status, page_count,
                                     extracted_pages, extracted_text,
                                     file_path, filled>>

\* ---- process_document (background task) ----
\* a failed document is scheduled again
TaskRunnable_Retry(d) ==
    \/ jpc[d] = "scheduled"
    \/ jpc[d] = "done" /\ d \in rows /\ status[d] = FAILED

\* the task of an upload is picked up again after it ended
TaskRunnable_Twice(d) == jpc[d] \in {"scheduled", "done"}

\* background_tasks.add_task(process_document, doc_id, file_path): the task
\* of an upload is run once
TaskRunnable(d) == jpc[d] = "scheduled"

\* the task starts the extraction without committing status = processing
process_document_begin_NoCommit(d) ==
    /\ UNCHANGED call
    /\ TaskRunnable(d)
    /\ UNCHANGED <<dbvars, jcount, jhtml, jfailed, reqvars, filled>>
    /\ jpc' = [jpc EXCEPT ![d] = IF d \in rows THEN "probe" ELSE "done"]

process_document_begin(d) ==
    /\ UNCHANGED call
    /\ TaskRunnable(d)
    /\ UNCHANGED <<rows, nextId, page_count, extracted_pages, extracted_text,
                   file_path, files, jcount, jhtml, reqvars, filled>>
    /\ IF d \notin rows
       THEN /\ jpc' = [jpc EXCEPT ![d] = "done"]
            /\ UNCHANGED <<status, jfailed>>
       ELSE \E committed \in BOOLEAN :
              IF committed
              THEN /\ status' = [status EXCEPT ![d] = PROCESSING]
                   /\ jpc' = [jpc EXCEPT ![d] = "probe"]
                   /\ UNCHANGED jfailed
              ELSE /\ jpc' = [jpc EXCEPT ![d] = "handler"]
                   /\ jfailed' = [jfailed EXCEPT ![d] = "commit_processing"]
                   /\ UNCHANGED status

process_document_count(d) ==
    /\ UNCHANGED call
    /\ jpc[d] = "probe"
    /\ UNCHANGED <<dbvars, jhtml, reqvars, filled>>
    /\ \E returned \in BOOLEAN, n \in get_page_count :
         IF returned
         THEN /\ jcount' = [jcount EXCEPT ![d] = n]
              /\ jpc' = [jpc EXCEPT ![d] = "extract"]
              /\ UNCHANGED jfailed
         ELSE /\ jpc' = [jpc EXCEPT ![d] = "handler"]
              /\ jfailed' = [jfailed EXCEPT ![d] = "probe"]
              /\ UNCHANGED jcount

process_document_extract(d) ==
    /\ UNCHANGED call
    /\ jpc[d] = "extract"
    /\ UNCHANGED <<dbvars, jcount, reqvars, filled>>
    /\ \E returned \in BOOLEAN, h \in extract_page :
         IF returned
         THEN /\ jhtml' = [jhtml EXCEPT ![d] = h]
              /\ jpc' = [jpc EXCEPT ![d] = "commit"]
              /\ UNCHANGED jfailed
         ELSE /\ jpc' = [jpc EXCEPT ![d] = "handler"]
              /\ jfailed' = [jfailed EXCEPT ![d] = "extract"]
              /\ UNCHANGED jhtml

\* the run completes without storing the page it extracted
FirstPageOnly_Nothing(h) == EmptyPages

\* document.extracted_pages = {"0": first_page_html}
FirstPageOnly(h) == Put(EmptyPages, 0, h)

\* the flush of line 54 reached the table and is not rolled back
StatusAfterFailedCommit_NoRollback(s) == COMPLETED

\* the status in the table after the commit of line 54 raised: the session
\* rolled the flush back
StatusAfterFailedCommit(s) == s

\* the final commit writes the row back even when it was deleted meanwhile
process_document_commit_Upsert(d) ==
    /\ UNCHANGED call
    /\ jpc[d] = "commit"
    /\ UNCHANGED <<nextId, file_path, files, reqvars, filled, jfailed>>
    /\ rows' = rows \cup {d}
    /\ page_count' = [page_count EXCEPT ![d] = jcount[d]]
    /\ extracted_pages' =
         [extracted_pages EXCEPT ![d] = FirstPageOnly(jhtml[d])]
    /\ extracted_text' = [extracted_text EXCEPT ![d] = jhtml[d]]
    /\ status' = [status EXCEPT ![d] = COMPLETED]
    /\ jpc' = [jpc EXCEPT ![d] = "done"]
    /\ jcount' = [jcount EXCEPT ![d] = None]
    /\ jhtml' = [jhtml EXCEPT ![d] = None]

process_document_commit(d) ==
    /\ UNCHANGED call
    /\ jpc[d] = "commit"
    /\ UNCHANGED <<rows, nextId, file_path, files, reqvars, filled>>
    /\ \E committed \in BOOLEAN :
         IF committed /\ d \in rows
         THEN /\ page_count' = [page_count EXCEPT ![d] = jcount[d]]
              /\ extracted_pages' =
                   [extracted_pages EXCEPT ![d] = FirstPageOnly(jhtml[d])]
              /\ extracted_text' = [extracted_text EXCEPT ![d] = jhtml[d]]
              /\ status' = [status EXCEPT ![d] = COMPLETED]
              /\ jpc' = [jpc EXCEPT ![d] = "done"]
              /\ jcount' = [jcount EXCEPT ![d] = None]
              /\ jhtml' = [jhtml EXCEPT ![d] = None]
              /\ UNCHANGED jfailed
         ELSE /\ status' = [status EXCEPT ![d] =
                              IF d \in rows
                              THEN StatusAfterFailedCommit(status[d])
                              ELSE status[d]]
              /\ jpc' = [jpc EXCEPT ![d] = "handler"]
              /\ jfailed' = [jfailed EXCEPT ![d] = "commit"]
              /\ jcount' = [jcount EXCEPT ![d] = None]
              /\ jhtml' = [jhtml EXCEPT ![d] = None]
              /\ UNCHANGED <<page_count, extracted_pages, extracted_text>>

\* the attributes the session still holds unflushed when the except block
\* runs: page_count and extracted_pages = {} were assigned (lines 41-42)
\* only when the exception came from the extraction of page 0
PendingPageCount(d) == jfailed[d] = "extract"

\* the page mapping the except block flushes together with status = failed
PagesFlushedOnFailure(m) == EmptyPages

process_document_except(d) ==
    /\ UNCHANGED call
    /\ jpc[d] = "handler"
    /\ UNCHANGED <<rows, nextId, extracted_text, file_path, files, jhtml,
                   jfailed, reqvars, filled>>
    /\ jcount' = [jcount EXCEPT ![d] = None]
    /\ \E committed \in BOOLEAN :
         IF committed /\ d \in rows
         THEN /\ status' = [status EXCEPT ![d] = FAILED]
              /\ page_count' = [page_count EXCEPT ![d] =
                                  IF PendingPageCount(d)
                                  THEN jcount[d] ELSE page_count[d]]
              /\ extracted_pages' = [extracted_pages EXCEPT ![d] =
                                  IF PendingPageCount(d)
                                  THEN PagesFlushedOnFailure(extracted_pages[d])
                                  ELSE extracted_pages[d]]
              /\ jpc' = [jpc EXCEPT ![d] = "done"]
         ELSE /\ jpc' = [jpc EXCEPT ![d] = "crashed"]
              /\ UNCHANGED <<status, page_count, extracted_pages>>

\* ---- get_page ----
\* the detail of line 166 formats document.page_count-1: a null page_count
\* raises TypeError instead of the HTTPException
InvalidPageNumberError(n) == IF n = None THEN ServerError ELSE OutOfRange(n)

\* lines 157-173: what get_page answers before any extraction, or
\* code 0 when the page has to be extracted
get_page_early(d, i) ==
    IF d \notin rows THEN NotFound
    ELSE IF NotReady(status[d]) THEN InvalidState(status[d])
    ELSE IF InvalidPageNumber(page_count[d], i)
         THEN InvalidPageNumberError(page_count[d])
    ELSE IF IsCached(extracted_pages[d], i)
         THEN PageResponse(extracted_pages[d][i], TRUE)
    ELSE NoResp

get_page_begin(r, d, i) ==
    /\ UNCHANGED call
    /\ pc[r] = "idle"
    /\ UNCHANGED <<dbvars, jobvars, filled>>
    /\ IF get_page_early(d, i) # NoResp
       THEN /\ Respond(r, Request("get_page", d, i), get_page_early(d, i))
            /\ ncalls' = [ncalls EXCEPT ![r] = 0]
       ELSE /\ pc' = [pc EXCEPT ![r] = "extracting"]
            /\ req' = [req EXCEPT ![r] = Request("get_page", d, i)]
            /\ loaded' = [loaded EXCEPT ![r] = extracted_pages[d]]
            /\ ncalls' = [ncalls EXCEPT ![r] = ncalls[r] + 1]
            /\ UNCHANGED resp

\* every commit of get_page writes the whole mapping of the request back
FlushEmitsUpdate_Always(m) == TRUE

\* lines 168 and 189-191.  extracted_pages = document.extracted_pages or {}
\* is the session's own dict unless that dict is empty; line 189 mutates it
\* in place and line 190 assigns the same object back.  The column is a
\* plain JSON column (document.py:30), so the flush compares the attribute
\* with the value it replaced and emits an UPDATE only when they differ,
\* that is only when line 168 made a new dict.
FlushEmitsUpdate(m) == m = EmptyPages

\* lines 181-194: the extraction returned and the commit went through
get_page_extracted(r) ==
    /\ UNCHANGED call
    /\ pc[r] = "extracting"
    /\ UNCHANGED <<rows, nextId, status, page_count, extracted_text,
                   file_path, files, jobvars, ncalls>>
    /\ LET d == req[r].doc
           i == req[r].idx
       IN \E h \in extract_page :
            /\ FlushEmitsUpdate(loaded[r]) => d \in rows
            /\ extracted_pages' =
                 IF FlushEmitsUpdate(loaded[r])
                 THEN [extracted_pages EXCEPT ![d] = Put(loaded[r], i, h)]
                 ELSE extracted_pages
            /\ Respond(r, req[r], PageResponse(h, FALSE))
            /\ filled' = [filled EXCEPT ![d] =
                            IF d \notin rows \/ i \in DOMAIN filled[d]
                            THEN filled[d] ELSE Put(filled[d], i, h)]

\* the failing request leaves a placeholder entry for the page behind
get_page_except_Placeholder(r) ==
    /\ UNCHANGED call
    /\ pc[r] = "extracting"
    /\ UNCHANGED <<rows, nextId, status, page_count, extracted_text,
                   file_path, files, jobvars, ncalls, filled>>
    /\ extracted_pages' =
         [extracted_pages EXCEPT ![req[r].doc] = Put(@, req[r].idx, None)]
    /\ Respond(r, req[r], ServerError)

\* lines 196-198: extract_page or the commit raised
get_page_except(r) ==
    /\ UNCHANGED call
    /\ pc[r] = "extracting"
    /\ UNCHANGED <<dbvars, jobvars, ncalls, filled>>
    /\ Respond(r, req[r], ServerError)

\* ---- get_document, get_document_text, list_documents ----
get_document(r, d) ==
    /\ UNCHANGED call
    /\ pc[r] = "idle"
    /\ UNCHANGED <<dbvars, jobvars, filled>>
    /\ ncalls' = [ncalls EXCEPT ![r] = 0]
    /\ Respond(r, Request("get_document", d, None),
               IF d \notin rows THEN NotFound
               ELSE [NoResp EXCEPT !.code = 200, !.status = status[d],
                                   !.page_count = page_count[d]])

\* pages.append(extracted_pages.get(str(i))) for i in range(page_count or 1)
PageListing(m, n) ==
    [k \in 1..PageCountOr1(n) |-> IF (k - 1) \in DOMAIN m THEN m[k - 1] ELSE None]

get_document_text(r, d) ==
    /\ UNCHANGED call
    /\ pc[r] = "idle"
    /\ UNCHANGED <<dbvars, jobvars, filled>>
    /\ ncalls' = [ncalls EXCEPT ![r] = 0]
    /\ Respond(r, Request("get_document_text", d, None),
               IF d \notin rows THEN NotFound
               ELSE IF NotReady(status[d]) THEN InvalidState(status[d])
               ELSE [NoResp EXCEPT
                       !.code = 200,
                       !.page_count = PageCountOr1(page_count[d]),
                       !.pages = PageListing(extracted_pages[d], page_count[d]),
                       !.keys = DOMAIN extracted_pages[d]])

list_documents(r) ==
    /\ UNCHANGED call
    /\ pc[r] = "idle"
    /\ UNCHANGED <<dbvars, jobvars, filled>>
    /\ ncalls' = [ncalls EXCEPT ![r] = 0]
    /\ Respond(r, Request("list_documents", None, None),
               [NoResp EXCEPT !.code = 200, !.keys = rows])

\* ---- delete_document ----
delete_document(r, d) ==
    /\ UNCHANGED call
    /\ pc[r] = "idle"
    /\ UNCHANGED <<nextId, jobvars>>
    /\ ncalls' = [ncalls EXCEPT ![r] = 0]
    /\ IF d \notin rows
       THEN /\ Respond(r, Request("delete_document", d, None), NotFound)
            /\ UNCHANGED <<rows, status, page_count, extracted_pages,
                           extracted_text, file_path, files, filled>>
       ELSE \E removed \in BOOLEAN, committed \in BOOLEAN :
              /\ files' = IF file_path[d] /\ d \in files /\ removed
                          THEN files \ {d} ELSE files
              /\ IF committed
                 THEN /\ DropRow(d)
                      /\ Respond(r, Request("delete_document", d, None),
                                 [NoResp EXCEPT !.code = 204])
                 ELSE /\ Respond(r, Request("delete_document", d, None),
                                 ServerError)
                      /\ UNCHANGED <<rows, status, page_count,
                                     extracted_pages, extracted_text,
                                     file_path, filled>>

\* ---- the client (simulate_flow.py) takes the response ----
client_receive(r) ==
    /\ UNCHANGED call
    /\ pc[r] = "responded"
    /\ pc' = [pc EXCEPT ![r] = "idle"]
    /\ req' = [req EXCEPT ![r] = NoReq]
    /\ resp' = [resp EXCEPT ![r] = NoResp]
    /\ ncalls' = [ncalls EXCEPT ![r] = 0]
    /\ UNCHANGED <<dbvars, jobvars, loaded, filled>>

Next ==
    \/ \E r \in Reqs, pdf \in BOOLEAN : upload_document_begin(r, pdf)
    \/ \E r \in Reqs : upload_document_finish(r)
    \/ \E d \in Ids : process_document_begin(d)
    \/ \E d \in Ids : process_document_count(d)
    \/ \E d \in Ids : process_document_extract(d)
    \/ \E d \in Ids : process_document_commit(d)
    \/ \E d \in Ids : process_document_except(d)
    \/ \E r \in Reqs, d \in Ids, i \in PageNumbers : get_page_begin(r, d, i)
    \/ \E r \in Reqs : get_page_extracted(r)
    \/ \E r \in Reqs : get_page_except(r)
    \/ \E r \in Reqs, d \in Ids : get_document(r, d)
    \/ \E r \in Reqs, d \in Ids : get_document_text(r, d)
    \/ \E r \in Reqs : list_documents(r)
    \/ \E r \in Reqs, d \in Ids : delete_document(r, d)
    \/ \E r \in Reqs : client_receive(r)

Spec == Init /\ [][Next]_vars

\* a step of the background task of document d
process_document(d) ==
    \/ process_document_begin(d)
    \/ process_document_count(d)
    \/ process_document_extract(d)
    \/ process_document_commit(d)
    \/ process_document_except(d)

\* the event loop runs a scheduled task and resumes it after every await
FairSpec == Spec /\ \A d \in Ids : WF_vars(process_document(d))

TypeOK ==
    /\ rows \subseteq Ids
    /\ \A d \in Ids : status[d] \in ProcessingStatus \cup {"none"}
    /\ \A d \in rows : status[d] \in ProcessingStatus

\* ---- services/ocr/service.py: the functions on texts and boxes ----
\* A text is the sequence of its characters; a page or a document is a
\* sequence of tokens, a token being a character or a whole run of text.
MaxTextLen == 3
MaxCleanLen == 5
MaxDocPages == 2

RECURSIVE Texts(_, _)
Texts(chars, n) ==
    IF n = 0 THEN {<<>>}
    ELSE LET T == Texts(chars, n - 1)
         IN T \cup {Append(t, c) : t \in {u \in T : Len(u) = n - 1},
                                  c \in chars}

\* the characters str.strip() removes and \s matches
WhiteSpace == {" ", "\t", "\n", "\r", "\f"}

\* \d
Digits == {"0", "1", "2", "3", "4", "5", "6", "7", "8", "9"}

\* the longest suffix of s that does not start with a character of C
RECURSIVE DropIn(_, _)
DropIn(s, C) == IF Len(s) > 0 /\ Head(s) \in C THEN DropIn(Tail(s), C) ELSE s

RECURSIVE rstrip(_)
rstrip(s) ==
    IF Len(s) > 0 /\ s[Len(s)] \in WhiteSpace
    THEN rstrip(SubSeq(s, 1, Len(s) - 1)) ELSE s

\* str.strip()
strip(s) == rstrip(DropIn(s, WhiteSpace))

\* str.isdigit()
isdigit(s) == Len(s) > 0 /\ \A i \in 1..Len(s) : s[i] \in Digits

\* r'^\s*\d+\s*$'
PageNumberPattern(t) == isdigit(strip(t))

\* r'^\s*-\s*\d+\s*-\s*$'
DashedPageNumberPattern(t) ==
    LET u == strip(t)
    IN /\ Len(u) >= 3
       /\ u[1] = "-"
       /\ u[Len(u)] = "-"
       /\ isdigit(strip(SubSeq(u, 2, Len(u) - 1)))

\* r'^\s*Page\s+\d+\s*$', compiled with re.IGNORECASE
PageWordPattern(t) ==
    LET u == strip(t)
    IN /\ Len(u) >= 6
       /\ u[1] \in {"P", "p"}
       /\ u[2] \in {"A", "a"}
       /\ u[3] \in {"G", "g"}
       /\ u[4] \in {"E", "e"}
       /\ u[5] \in WhiteSpace
       /\ isdigit(strip(SubSeq(u, 5, Len(u))))

\* the characters of the texts given to the classifier
TextChars == {"1", "2", " ", "-", "a"}

\* The patterns of lines 37-52 (copyright, DOI, ISBN, conference and journal
\* headers, licence phrases).  Each of them needs a character that is not in
\* TextChars, except the conference pattern of line 43, which needs two
\* letters, a separator, two digits and d-d: 8 characters at least.  No text
\* over TextChars shorter than 8 characters matches any of them.
PublicationPatterns(t) == FALSE

\* any(regex.search(text_clean) for regex in self.header_footer_regexes)
MatchesHeaderFooterPattern(t) ==
    \/ PageNumberPattern(t)
    \/ DashedPageNumberPattern(t)
    \/ PageWordPattern(t)
    \/ PublicationPatterns(t)

\* len(text_clean) < 100 inside the zones, < 150 anywhere
ShortInZone == 100
ShortAnywhere == 150

\* y0 < page_height * 0.08
is_in_header_zone(y0, page_height) == 100 * y0 < 8 * page_height

\* y1 > page_height * 0.90
is_in_footer_zone(y1, page_height) == 100 * y1 > 90 * page_height

\* the classifier without the check of lines 129-134
is_header_or_footer_ZonesOnly(text, y0, y1, page_height) ==
    IF Len(strip(text)) = 0 THEN TRUE
    ELSE LET text_clean == strip(text)
         IN /\ \/ is_in_header_zone(y0, page_height)
               \/ is_in_footer_zone(y1, page_height)
            /\ Len(text_clean) < ShortInZone
            /\ MatchesHeaderFooterPattern(text_clean) \/ isdigit(text_clean)

is_header_or_footer(text, y0, y1, page_height) ==
    IF Len(strip(text)) = 0 THEN TRUE
    ELSE LET text_clean == strip(text)
         IN \/ /\ \/ is_in_header_zone(y0, page_height)
                  \/ is_in_footer_zone(y1, page_height)
               /\ Len(text_clean) < ShortInZone
               /\ \/ MatchesHeaderFooterPattern(text_clean)
                  \/ isdigit(text_clean)
            \/ /\ MatchesHeaderFooterPattern(text_clean)
               /\ Len(text_clean) < ShortAnywhere

\* Of the class [\x00-\x08\x0b\x0c\x0e-\x1f\x7f] the form feed (\x0c) is the
\* character a TLA+ string can hold.
ControlChars == {"\f"}

\* re.sub(r'[\x00-\x08\x0b\x0c\x0e-\x1f\x7f]', '', text)
RemoveControl(s) == SelectSeq(s, LAMBDA c : c \notin ControlChars)

\* the concatenation of a sequence of sequences
RECURSIVE Concat(_)
Concat(ss) ==
    IF Len(ss) = 0 THEN <<>>
    ELSE IF Len(ss) = 1 THEN ss[1]
    ELSE Concat(SubSeq(ss, 1, Len(ss) \div 2))
           \o Concat(SubSeq(ss, Len(ss) \div 2 + 1, Len(ss)))

\* re.sub(r'[^\S\n]+', ' ', text): the first character of a run of blanks
\* becomes a space and the rest of the run goes
CollapseBlanks(s) ==
    Concat([i \in 1..Len(s) |->
              IF s[i] \in WhiteSpace \ {"\n"}
              THEN IF i > 1 /\ s[i - 1] \in WhiteSpace \ {"\n"}
                   THEN <<>> ELSE <<" ">>
              ELSE <<s[i]>>])

\* re.sub(r'\n{3,}', '\n\n', text)
\* of a run of three newlines or more the first two stay
CollapseNewlines(s) ==
    Concat([i \in 1..Len(s) |->
              IF i > 2 /\ s[i] = "\n" /\ s[i - 1] = "\n" /\ s[i - 2] = "\n"
              THEN <<>> ELSE <<s[i]>>])

\* the cleaning pass without the collapse of blank lines
clean_text_KeepNewlines(text) ==
    IF Len(text) = 0 THEN <<>>
    ELSE strip(CollapseBlanks(RemoveControl(text)))

clean_text(text) ==
    IF Len(text) = 0 THEN <<>>
    ELSE strip(CollapseNewlines(CollapseBlanks(RemoveControl(text))))

Abs(x) == IF x < 0 THEN 0 - x ELSE x

\* abs(block_center - page_center) < page_width * 0.05, with
\* block_center = (x0 + x1) / 2
NearCentered(x0, x1, page_width, page_center) ==
    10 * Abs((x0 + x1) - 2 * page_center) < page_width

\* x0 > left_margin and x1 < right_margin, the margins at 10% and 90%
InsideMargins(x0, x1, page_width) ==
    10 * x0 > page_width /\ 10 * x1 < 9 * page_width

\* x1 > right_margin - 10 and x0 > page_center
RightTest(x0, x1, page_width, page_center) ==
    10 * x1 > 9 * page_width - 100 /\ x0 > page_center

\* x0 < left_margin + 20 and x1 > right_margin - 20
JustifyTest(x0, x1, page_width) ==
    10 * x0 < page_width + 200 /\ 10 * x1 > 9 * page_width - 200

\* the detector with the justify test ahead of the center test
detect_alignment_JustifyFirst(x0, x1, page_width, page_center) ==
    IF JustifyTest(x0, x1, page_width) THEN "justify"
    ELSE IF /\ NearCentered(x0, x1, page_width, page_center)
            /\ InsideMargins(x0, x1, page_width)
         THEN "center"
    ELSE IF RightTest(x0, x1, page_width, page_center) THEN "right"
    ELSE "left"

detect_alignment(x0, x1, page_width, page_center) ==
    IF /\ NearCentered(x0, x1, page_width, page_center)
       /\ InsideMargins(x0, x1, page_width)
    THEN "center"
    ELSE IF RightTest(x0, x1, page_width, page_center) THEN "right"
    ELSE IF JustifyTest(x0, x1, page_width) THEN "justify"
    ELSE "left"

\* f"--- Page {page_num + 1} ---"
Marker(n) == "--- Page " \o ToString(n) \o " ---"

\* the pages are joined without the marker
PageBlock_NoMarker(page_num, page_html) == <<"\n", "\n">> \o page_html

\* f"\n\n--- Page {page_num + 1} ---\n\n{page_html}"
PageBlock(page_num, page_html) ==
    <<"\n", "\n", Marker(page_num + 1), "\n", "\n">> \o page_html

\* the loop of lines 79-86 over the first n pages, joined by line 90
RECURSIVE all_pages_html(_, _)
all_pages_html(pages, n) ==
    IF n = 0 THEN <<>>
    ELSE all_pages_html(pages, n - 1)
           \o (IF Len(strip(pages[n])) > 0
               THEN PageBlock(n - 1, pages[n]) ELSE <<>>)

extract_text(pages) == all_pages_html(pages, Len(pages))

\* ---- the inputs of the calls ----
PageHeights == {100, 800}
YPercents == {0, 5, 8, 45, 55, 90, 93, 100}
PageWidths == {200, 600}
XTwentieths == 0..20

\* what _extract_page_with_layout returns for a page
PageHtmls == {<<>>, <<" ">>, <<"Page 1 text">>, <<"Page 2 text">>,
              <<"Page 1 text", "\n", "Page 2 text">>}

\* "exam-\nple"
ExamPle == <<"e", "x", "a", "m", "-", "\n", "p", "l", "e">>

CleanChars == {"a", "-", " ", "\n", "\f"}

HeaderFooterCalls ==
    {c \in
     {[fn |-> "_is_header_or_footer", text |-> t, y0 |-> (p0 * h) \div 100,
      y1 |-> (p1 * h) \div 100, page_height |-> h, done |-> FALSE,
      out |-> FALSE] :
       t \in Texts(TextChars, MaxTextLen), h \in PageHeights,
       p0 \in YPercents, p1 \in YPercents} : c.y0 <= c.y1}

CleanCalls ==
    {[fn |-> "_clean_text", text |-> t, done |-> FALSE, out |-> <<>>] :
       t \in Texts(CleanChars, MaxCleanLen) \cup {ExamPle}}

AlignmentCalls ==
    {c \in
     {[fn |-> "_detect_alignment", x0 |-> (k0 * w) \div 20,
      x1 |-> (k1 * w) \div 20, page_width |-> w, page_center |-> w \div 2,
      done |-> FALSE, out |-> ""] :
       w \in PageWidths, k0 \in XTwentieths, k1 \in XTwentieths} :
     c.x0 <= c.x1}

ExtractCalls ==
    {[fn |-> "extract_text", pages |-> d, done |-> FALSE, out |-> <<>>] :
       d \in Texts(PageHtmls, MaxDocPages)}

\* ---- _process_text_block ----
MaxEscLen == 3

UpperChars == {"A", "B", "C", "D", "E", "F", "G", "H", "I", "J", "K", "L",
               "M", "N", "O", "P", "Q", "R", "S", "T", "U", "V", "W", "X",
               "Y", "Z"}
LowerChars == {"a", "b", "c", "d", "e", "f", "g", "h", "i", "j", "k", "l",
               "m", "n", "o", "p", "q", "r", "s", "t", "u", "v", "w", "x",
               "y", "z"}

\* str.isupper(): a cased character is there and no cased one is lowercase
isupper(s) ==
    /\ \E i \in 1..Len(s) : s[i] \in UpperChars
    /\ \A i \in 1..Len(s) : s[i] \notin LowerChars

\* line_text += text over the spans of a line
line_text(line) == Concat([k \in 1..Len(line) |-> line[k].text])

\* the lines whose text is not blank
block_text_parts(lines) ==
    SelectSeq([k \in 1..Len(lines) |-> line_text(lines[k])],
              LAMBDA t : Len(strip(t)) > 0)

\* '\n'.join(block_text_parts)
RECURSIVE JoinLines(_)
JoinLines(parts) ==
    IF Len(parts) = 0 THEN <<>>
    ELSE IF Len(parts) = 1 THEN parts[1]
    ELSE parts[1] \o <<"\n">> \o JoinLines(Tail(parts))

\* font_flags & 16 on some span
is_bold(lines) ==
    \E k \in 1..Len(Concat(lines)) : (Concat(lines)[k].flags \div 16) % 2 = 1

RECURSIVE SumSizes(_)
SumSizes(sp) ==
    IF Len(sp) = 0 THEN 0 ELSE Head(sp).size + SumSizes(Tail(sp))

\* avg_font_size > 14, with avg_font_size = sum(font_sizes) / len(font_sizes)
\* and 12 when there is no span
LargeFont(lines) ==
    /\ Len(Concat(lines)) > 0
    /\ SumSizes(Concat(lines)) > 14 * Len(Concat(lines))

\* a block is a title by its font size only
is_title_SizeOnly(full_text, large, alignment) ==
    large /\ Len(full_text) < 150

is_title(full_text, large, alignment) ==
    \/ isupper(full_text) /\ Len(full_text) < 100
    \/ large /\ Len(full_text) < 150
    \/ alignment = "center" /\ Len(full_text) < 100

\* str.replace(c, rep)
Replace(s, c, rep) ==
    Concat([i \in 1..Len(s) |-> IF s[i] = c THEN rep ELSE <<s[i]>>])

Amp == <<"&", "a", "m", "p", ";">>
Lt == <<"&", "l", "t", ";">>
Gt == <<"&", "g", "t", ";">>
Br == <<"<", "b", "r", ">">>

\* the ampersand is replaced after the angle brackets
EscapeHtml_AmpLast(full_text) ==
    Replace(Replace(Replace(Replace(full_text, "<", Lt), ">", Gt), "&", Amp),
            "\n", Br)

\* full_text.replace("&", "&amp;").replace("<", "&lt;").replace(">", "&gt;")
\* and then .replace("\n", "<br>")
EscapeHtml(full_text) ==
    Replace(Replace(Replace(Replace(full_text, "&", Amp), "<", Lt), ">", Gt),
            "\n", Br)

\* '<tag style="text-align: alignment">'
OpenTag(tag, alignment) ==
    "<" \o tag \o " style=\"text-align: " \o alignment \o "\">"

CloseTag(tag) == "</" \o tag \o ">"

process_text_block(block, page_width, page_center) ==
    IF Len(block_text_parts(block.lines)) = 0 THEN <<>>
    ELSE LET full_text == clean_text(JoinLines(block_text_parts(block.lines)))
             alignment == detect_alignment(block.x0, block.x1, page_width,
                                           page_center)
             escaped_text == EscapeHtml(full_text)
         IN IF Len(strip(full_text)) = 0 THEN <<>>
            ELSE IF is_title(full_text, LargeFont(block.lines), alignment)
            THEN IF isupper(full_text)
                 THEN <<OpenTag("h2", alignment)>> \o escaped_text
                        \o <<CloseTag("h2")>>
                 ELSE <<OpenTag("h3", alignment)>> \o escaped_text
                        \o <<CloseTag("h3")>>
            ELSE IF is_bold(block.lines)
            THEN <<OpenTag("p", alignment), "<strong>">> \o escaped_text
                   \o <<"</strong>", CloseTag("p")>>
            ELSE <<OpenTag("p", alignment)>> \o escaped_text
                   \o <<CloseTag("p")>>

\* n times the character c
Repeat(c, n) == [i \in 1..n |-> c]

EscChars == {"&", "<", ">", "\n", "a", "A"}

\* texts around the two length thresholds
LongTexts == {Repeat(c, n) : c \in {"a", "A"}, n \in {99, 100, 149, 150}}

Span(t, size, flags) == [text |-> t, size |-> size, flags |-> flags]

\* boxes on a page of width 200: centred, left, right, full width
BlockBoxes == {<<60, 140>>, <<20, 100>>, <<120, 190>>, <<10, 190>>}

FontSizes == {12, 16}
FontFlags == {0, 16}

\* blocks of one line with one span
OneSpanBlocks ==
    {[lines |-> << <<Span(t, size, flags)>> >>, x0 |-> b[1], x1 |-> b[2]] :
       t \in Texts(EscChars, MaxEscLen) \cup LongTexts,
       size \in FontSizes, flags \in FontFlags, b \in BlockBoxes}

\* blocks of two lines, the second of two spans
TwoLineBlocks ==
    {[lines |-> << <<Span(<<c1>>, s1, 0)>>,
                   <<Span(<<c2>>, s2, f2), Span(<<" ">>, s2, 0)>> >>,
      x0 |-> 20, x1 |-> 100] :
       c1 \in {"a", "A", " "}, c2 \in {"a", "A", " "},
       s1 \in FontSizes, s2 \in FontSizes, f2 \in FontFlags}

TextBlockCalls ==
    {[fn |-> "_process_text_block", block |-> b, page_width |-> 200,
      page_center |-> 100, done |-> FALSE, out |-> <<>>] :
       b \in OneSpanBlocks \cup TwoLineBlocks}

\* the methods class PyMuPDF4LLMService defines (service.py:55-329); its
\* base class OCRProvider declares extract_text only
PyMuPDF4LLMService ==
    {"__init__", "extract_text", "_is_header_or_footer",
     "_extract_page_with_layout", "_get_block_text", "_process_text_block",
     "_detect_alignment", "_process_image_block", "_clean_text"}

\* return PyMuPDF4LLMService()
get_ocr_service == PyMuPDF4LLMService

\* the attributes of the provider the endpoints look up (documents.py:40,
\* 47 and 183), and extract_text
ProviderAttributes == {"get_page_count", "extract_page", "extract_text"}

\* ocr_service.<name> on the object get_ocr_service() returned
getattr(name) == IF name \in get_ocr_service THEN "method" ELSE "AttributeError"

AttributeCalls ==
    {[fn |-> "getattr", name |-> n, done |-> FALSE, out |-> ""] :
       n \in ProviderAttributes}

mainvars == <<rows, nextId, status, page_count, extracted_pages,
              extracted_text, file_path, files, jpc, jcount, jhtml, jfailed,
              pc, req, loaded, resp, ncalls, filled>>

InitService ==
    /\ rows = {}
    /\ nextId = 1
    /\ status = [d \in Ids |-> "none"]
    /\ page_count = [d \in Ids |-> None]
    /\ extracted_pages = [d \in Ids |-> EmptyPages]
    /\ extracted_text = [d \in Ids |-> None]
    /\ file_path = [d \in Ids |-> FALSE]
    /\ files = {}
    /\ jpc = [d \in Ids |-> "none"]
    /\ jcount = [d \in Ids |-> None]
    /\ jhtml = [d \in Ids |-> None]
    /\ jfailed = [d \in Ids |-> "none"]
    /\ pc = [r \in Reqs |-> "idle"]
    /\ req = [r \in Reqs |-> NoReq]
    /\ loaded = [r \in Reqs |-> EmptyPages]
    /\ resp = [r \in Reqs |-> NoResp]
    /\ ncalls = [r \in Reqs |-> 0]
    /\ filled = [d \in Ids |-> EmptyPages]
    /\ \/ call \in HeaderFooterCalls
       \/ call \in CleanCalls
       \/ call \in AlignmentCalls
       \/ call \in ExtractCalls
       \/ call \in AttributeCalls
       \/ call \in TextBlockCalls

Returns(v) ==
    /\ ~call.done
    /\ call' = [call EXCEPT !.done = TRUE, !.out = v]
    /\ UNCHANGED mainvars

call_is_header_or_footer ==
    /\ call.fn = "_is_header_or_footer"
    /\ Returns(is_header_or_footer(call.text, call.y0, call.y1,
                                   call.page_height))

call_clean_text ==
    /\ call.fn = "_clean_text"
    /\ Returns(clean_text(call.text))

call_detect_alignment ==
    /\ call.fn = "_detect_alignment"
    /\ Returns(detect_alignment(call.x0, call.x1, call.page_width,
                                call.page_center))

call_extract_text ==
    /\ call.fn = "extract_text"
    /\ Returns(extract_text(call.pages))

call_getattr ==
    /\ call.fn = "getattr"
    /\ Returns(getattr(call.name))

call_process_text_block ==
    /\ call.fn = "_process_text_block"
    /\ Returns(process_text_block(call.block, call.page_width,
                                  call.page_center))

NextService ==
    \/ call_is_header_or_footer
    \/ call_clean_text
    \/ call_detect_alignment
    \/ call_extract_text
    \/ call_getattr
    \/ call_process_text_block

SpecService == InitService /\ [][NextService]_vars

\* ---- properties ----
Terminal == {COMPLETED, FAILED}

Rank(s) == CASE s = PENDING -> 0
             [] s = PROCESSING -> 1
             [] s = COMPLETED -> 2
             [] s = FAILED -> 2
             [] OTHER -> 0 - 1

\* slot r starts serving a request in this step
Begins(r) == pc[r] = "idle" /\ pc'[r] # "idle"

\* the row of d is left as it is by this step
RowUnchanged(d) ==
    /\ (d \in rows') = (d \in rows)
    /\ status'[d] = status[d]
    /\ page_count'[d] = page_count[d]
    /\ extracted_pages'[d] = extracted_pages[d]
    /\ extracted_text'[d] = extracted_text[d]

\* C1: a document is created Pending, and every change of its persisted
\* status moves forward in the order Pending, Processing, {Completed, Failed}:
\* no status is entered twice, Completed never follows Failed and Failed
\* never follows Completed.
C1_StatusOrder ==
    [][\A d \in Ids :
         /\ (d \in rows' \ rows) => status'[d] = PENDING
         /\ (d \in rows /\ d \in rows' /\ status'[d] # status[d])
              => Rank(status'[d]) > Rank(status[d])]_vars

\* a document went Pending, Processing, Completed
C1_Witness ==
    \E d \in rows : status[d] = COMPLETED /\ jpc[d] = "done"

\* C2: once the status of a document is Completed or Failed no step changes
\* it while the row exists, the background task of the document has ended and
\* never runs again.
C2_TerminalAbsorbing ==
    [][\A d \in Ids :
         (d \in rows /\ d \in rows' /\ status[d] \in Terminal)
           => /\ status'[d] = status[d]
              /\ jpc[d] = "done"
              /\ jpc'[d] = "done"]_vars

\* a cache miss was served on a Completed document, which is still Completed
C2_Witness ==
    \E r \in Reqs :
      /\ pc[r] = "responded"
      /\ req[r].op = "get_page"
      /\ resp[r].code = 200
      /\ ~resp[r].cached
      /\ req[r].doc \in rows
      /\ status[req[r].doc] = COMPLETED

\* C3: once a get_page on a page of a Completed document returned
\* cached=false with content C, a later get_page on that page returns
\* cached=true with content C.
C3_SecondCallCached ==
    [][\A r \in Reqs :
         (/\ Begins(r)
          /\ req'[r].op = "get_page"
          /\ req'[r].doc \in rows
          /\ req'[r].idx \in DOMAIN filled[req'[r].doc])
           => /\ pc'[r] = "responded"
              /\ resp'[r].code = 200
              /\ resp'[r].cached
              /\ resp'[r].content = filled[req'[r].doc][req'[r].idx]]_vars

\* C4: a get_page on an index present in the page mapping answers at once
\* with the stored html and cached=true, dispatches no extraction and leaves
\* the row unchanged; no request ever dispatches more than one extraction.
C4_CacheHit ==
    [][\A r \in Reqs :
         /\ ncalls'[r] <= 1
         /\ (/\ Begins(r)
             /\ req'[r].op = "get_page"
             /\ req'[r].doc \in rows
             /\ req'[r].idx \in DOMAIN extracted_pages[req'[r].doc])
              => /\ pc'[r] = "responded"
                 /\ resp'[r].code = 200
                 /\ resp'[r].cached
                 /\ resp'[r].content =
                      extracted_pages[req'[r].doc][req'[r].idx]
                 /\ ncalls'[r] = 0
                 /\ RowUnchanged(req'[r].doc)]_vars

\* a cache hit was served
C4_Witness ==
    \E r \in Reqs :
      /\ pc[r] = "responded"
      /\ req[r].op = "get_page"
      /\ resp[r].code = 200
      /\ resp[r].cached
      /\ ncalls[r] = 0

\* C5: when a get_page that missed the cache returns cached=false with
\* content H, the persisted page mapping holds the requested index with
\* content H and still holds every entry it held before.
C5_MissPersists ==
    [][\A r \in Reqs :
         (/\ pc[r] = "extracting"
          /\ pc'[r] = "responded"
          /\ resp'[r].code = 200
          /\ req[r].doc \in rows)
           => LET d == req[r].doc
                  i == req[r].idx
              IN /\ i \in DOMAIN extracted_pages'[d]
                 /\ extracted_pages'[d][i] = resp'[r].content
                 /\ \A k \in DOMAIN extracted_pages[d] :
                      /\ k \in DOMAIN extracted_pages'[d]
                      /\ extracted_pages'[d][k] = extracted_pages[d][k]]_vars

\* C6: every page index of the persisted page mapping of a document lies in
\* [0, page_count).
C6_PagesInRange ==
    \A d \in rows :
      \A i \in DOMAIN extracted_pages[d] :
        /\ page_count[d] # None
        /\ 0 <= i
        /\ i < page_count[d]

\* C7: on a Completed document a get_page with a negative index or with
\* index = page_count answers OutOfRange with the range [0, page_count-1],
\* dispatches no extraction and leaves the page mapping unchanged.
C7_OutOfRange ==
    [][\A r \in Reqs :
         (/\ Begins(r)
          /\ req'[r].op = "get_page"
          /\ req'[r].doc \in rows
          /\ status[req'[r].doc] = COMPLETED
          /\ \/ req'[r].idx < 0
             \/ req'[r].idx = page_count[req'[r].doc])
           => /\ pc'[r] = "responded"
              /\ resp'[r].code = 400
              /\ resp'[r].err = "OutOfRange"
              /\ resp'[r].hi = page_count[req'[r].doc] - 1
              /\ ncalls'[r] = 0
              /\ extracted_pages' = extracted_pages]_vars

\* C8: get_page and get_document_text on a Pending, Processing or Failed
\* document answer InvalidState, dispatch no extraction and change nothing;
\* get_document, get_document_text, get_page and delete_document on an id
\* without a row answer NotFound.
C8_InvalidStateAndNotFound ==
    [][\A r \in Reqs :
         Begins(r) =>
           LET op == req'[r].op
               d == req'[r].doc
           IN /\ (/\ op \in {"get_page", "get_document_text"}
                  /\ d \in rows
                  /\ status[d] \in {PENDING, PROCESSING, FAILED})
                   => /\ pc'[r] = "responded"
                      /\ resp'[r].code = 400
                      /\ resp'[r].err = "InvalidState"
                      /\ ncalls'[r] = 0
                      /\ RowUnchanged(d)
                      /\ UNCHANGED <<rows, files, file_path, jpc>>
              /\ (/\ op \in {"get_document", "get_document_text",
                             "get_page", "delete_document"}
                  /\ d \notin rows)
                   => /\ pc'[r] = "responded"
                      /\ resp'[r].code = 404
                      /\ resp'[r].err = "NotFound"
                      /\ ncalls'[r] = 0
                      /\ UNCHANGED <<rows, files>>]_vars

\* a page request was refused on a Failed document and a request on an id
\* without a row was answered NotFound
C8_Witness ==
    /\ \E r \in Reqs :
         /\ pc[r] = "responded"
         /\ req[r].op = "get_page"
         /\ resp[r].err = "InvalidState"
         /\ resp[r].status = FAILED
    /\ \E r \in Reqs :
         /\ pc[r] = "responded"
         /\ req[r].op \in {"get_document", "get_document_text", "get_page",
                           "delete_document"}
         /\ resp[r].err = "NotFound"

\* the background task of d has ended
TaskEnded(d) == jpc[d] \in {"done", "crashed"}

\* C9: when the page-count probe, the extraction of page 0 or the final
\* commit of the processing run raised, the document ends in Failed with no
\* extracted page in the page mapping and no first text.
C9_FailureEndsFailed ==
    \A d \in rows :
      (TaskEnded(d) /\ jfailed[d] \in {"probe", "extract", "commit"})
        => /\ status[d] = FAILED
           /\ extracted_pages[d] = EmptyPages
           /\ extracted_text[d] = None

\* C10: a get_page whose extraction or commit raised answers with a server
\* error; the document stays Completed and its persisted page mapping is the
\* one the request loaded, without the requested index.
C10_LazyFailure ==
    [][\A r \in Reqs :
         (/\ pc[r] = "extracting"
          /\ pc'[r] = "responded"
          /\ resp'[r].code # 200)
           => LET d == req[r].doc
                  i == req[r].idx
              IN /\ resp'[r].code = 500
                 /\ RowUnchanged(d)
                 /\ d \in rows =>
                      /\ status'[d] = COMPLETED
                      /\ extracted_pages'[d] = loaded[r]
                      /\ i \notin DOMAIN extracted_pages'[d]]_vars

\* a lazy page request failed on a document that is still Completed
C10_Witness ==
    \E r \in Reqs :
      /\ pc[r] = "responded"
      /\ req[r].op = "get_page"
      /\ resp[r].code = 500
      /\ req[r].doc \in rows
      /\ status[req[r].doc] = COMPLETED

\* C11: whenever the persisted status of a document is Completed its
\* page_count is not null and its page mapping holds index 0; in the step
\* that makes the status Completed the mapping holds index 0 and nothing
\* else.
C11_CompletedHasFirstPage ==
    [][\A d \in Ids :
         (d \in rows' /\ status'[d] = COMPLETED)
           => /\ page_count'[d] # None
              /\ 0 \in DOMAIN extracted_pages'[d]
              /\ (status[d] # COMPLETED)
                   => DOMAIN extracted_pages'[d] = {0}]_vars

\* a document of more than one page is Completed with page 0 alone
C11_Witness ==
    \E d \in rows :
      /\ status[d] = COMPLETED
      /\ page_count[d] > 1
      /\ DOMAIN extracted_pages[d] = {0}

\* how far the background task of a document has come
JobRank(p) == CASE p = "none" -> 0
                [] p = "scheduled" -> 1
                [] p = "probe" -> 2
                [] p = "extract" -> 3
                [] p = "commit" -> 4
                [] p = "handler" -> 5
                [] OTHER -> 6

\* C12: page_count of a document is written at most once, from null, and
\* only by a step of the background task its upload scheduled (the final
\* commit or the except block), never by a step of a request; the task only
\* moves forward, so no second processing run is started.
C12_PageCountWrittenOnce ==
    [][\A d \in Ids :
         /\ (d \in rows /\ d \in rows' /\ page_count'[d] # page_count[d])
              => /\ page_count[d] = None
                 /\ jpc[d] \in {"commit", "handler"}
                 /\ jpc'[d] = "done"
                 /\ UNCHANGED reqvars
         /\ (jpc'[d] # jpc[d]) => JobRank(jpc'[d]) > JobRank(jpc[d])
         /\ (jpc'[d] = "scheduled" /\ jpc[d] # "scheduled")
              => \E r \in Reqs : /\ pc[r] = "saving"
                                 /\ req[r].doc = d
                                 /\ resp'[r].code = 202]_vars

\* the task has ended, page_count is set and a read of the document
\* reported it
C12_Witness ==
    \E r \in Reqs :
      /\ pc[r] = "responded"
      /\ req[r].op = "get_document"
      /\ resp[r].code = 200
      /\ resp[r].page_count # None
      /\ jpc[req[r].doc] = "done"

\* C13: an upload that succeeds creates exactly one new document, Pending,
\* with null page_count and an empty page mapping; its 202 answer carries the
\* status Pending, and it schedules the processing task of that document and
\* of no other.
C13_UploadCreatesPending ==
    [][\A r \in Reqs :
         /\ (pc[r] = "idle" /\ pc'[r] = "saving")
              => LET d == req'[r].doc
                 IN /\ d \notin rows
                    /\ rows' = rows \cup {d}
                    /\ status'[d] = PENDING
                    /\ page_count'[d] = None
                    /\ extracted_pages'[d] = EmptyPages
                    /\ extracted_text'[d] = None
                    /\ jpc'[d] = "none"
         /\ (pc[r] = "saving" /\ pc'[r] = "responded" /\ resp'[r].code = 202)
              => LET d == req[r].doc
                 IN /\ rows' = rows
                    /\ d \in rows'
                    /\ status'[d] = PENDING
                    /\ page_count'[d] = None
                    /\ extracted_pages'[d] = EmptyPages
                    /\ resp'[r].status = PENDING
                    /\ jpc[d] = "none"
                    /\ jpc'[d] = "scheduled"
                    /\ \A e \in Ids \ {d} : jpc'[e] = jpc[e]]_vars

\* an upload was answered 202 and its document waits for its task
C13_Witness ==
    \E r \in Reqs :
      /\ pc[r] = "responded"
      /\ req[r].op = "upload_document"
      /\ resp[r].code = 202
      /\ req[r].doc \in rows
      /\ status[req[r].doc] = PENDING
      /\ jpc[req[r].doc] = "scheduled"

\* C14: an upload refused because the filename does not end in .pdf, and an
\* upload whose file save failed (no file was written), leave no document
\* row behind and schedule no processing task.
C14_RejectedUploadLeavesNothing ==
    [][\A r \in Reqs :
         /\ (/\ Begins(r)
             /\ req'[r].op = "upload_document"
             /\ resp'[r].err = "OnlyPdf")
              => /\ resp'[r].code = 400
                 /\ UNCHANGED <<rows, jpc, files>>
         /\ (/\ pc[r] = "saving"
             /\ pc'[r] = "responded"
             /\ req[r].doc \notin files')
              => /\ resp'[r].code = 500
                 /\ req[r].doc \notin rows'
                 /\ jpc'[req[r].doc] = "none"]_vars

\* C15: delete_document on a document that exists removes its row and
\* answers 204, whether or not the backing file could be removed; once the
\* row is gone it never comes back, so every later lookup of the id is
\* answered NotFound.
C15_DeleteRemovesRecord ==
    [][\A r \in Reqs :
         /\ (/\ Begins(r)
             /\ req'[r].op = "delete_document"
             /\ req'[r].doc \in rows)
              => /\ pc'[r] = "responded"
                 /\ resp'[r].code = 204
                 /\ req'[r].doc \notin rows'
         /\ \A d \in Ids : (d \notin rows /\ d < nextId) => d \notin rows'
         /\ (/\ Begins(r)
             /\ req'[r].op \in {"get_document", "get_document_text",
                                "get_page"}
             /\ req'[r].doc \notin rows)
              => resp'[r].err = "NotFound"]_vars

\* C16: the page listing of a Completed document has a pages list of length
\* exactly page_count, pages[i] is null exactly when index i is absent from
\* the page mapping and is the stored html otherwise, and extracted_pages
\* lists exactly the indices of the mapping.
C16_PageListing ==
    [][\A r \in Reqs :
         (/\ Begins(r)
          /\ req'[r].op = "get_document_text"
          /\ req'[r].doc \in rows
          /\ status[req'[r].doc] = COMPLETED)
           => LET d == req'[r].doc
                  m == extracted_pages[d]
              IN /\ resp'[r].code = 200
                 /\ Len(resp'[r].pages) = page_count[d]
                 /\ \A k \in 1..Len(resp'[r].pages) :
                      /\ (resp'[r].pages[k] = None) <=> ((k - 1) \notin DOMAIN m)
                      /\ ((k - 1) \in DOMAIN m) => resp'[r].pages[k] = m[k - 1]
                 /\ resp'[r].keys = DOMAIN m]_vars

\* ---- properties of the functions of services/ocr/service.py ----
\* the classifier returned for the text "12"
Classified12 ==
    /\ call.fn = "_is_header_or_footer"
    /\ call.done
    /\ call.text = <<"1", "2">>

\* the block ends below 92% of the page height
InFooter92 == 100 * call.y1 > 92 * call.page_height

\* the block lies across the middle of the page, outside both zones
AtMidHeight ==
    /\ 2 * call.y0 <= call.page_height
    /\ 2 * call.y1 >= call.page_height
    /\ ~is_in_header_zone(call.y0, call.page_height)
    /\ ~is_in_footer_zone(call.y1, call.page_height)

\* C17: the classifier takes a block holding only "12" that ends below 92%
\* of the page height for boilerplate, and the same text at page mid-height
\* for content.
C17_PageNumberByPosition ==
    Classified12 => /\ InFooter92 => call.out
                    /\ AtMidHeight => ~call.out

\* C17 as the code has it: a block holding only "12" is boilerplate when it
\* ends below 92% of the page height and at page mid-height as well, because
\* the page-number pattern is also applied outside the zones to texts shorter
\* than 150 characters.
C17_PageNumberAnywhere ==
    Classified12 => /\ InFooter92 => call.out
                    /\ AtMidHeight => call.out

\* "12" at page mid-height was classified boilerplate
C17_Witness == Classified12 /\ AtMidHeight /\ call.out

\* s holds three newlines in a row
TripleNewline(s) ==
    \E i \in 1..(Len(s) - 2) :
      s[i] = "\n" /\ s[i + 1] = "\n" /\ s[i + 2] = "\n"

Cleaned == call.fn = "_clean_text" /\ call.done

\* C18: the cleaning pass turns "exam-\nple" into "example", and a text
\* holding three or more newlines in a row into one with at most two
\* newlines in a row.
C18_CleanupDehyphenates ==
    Cleaned => /\ (call.text = ExamPle)
                    => call.out = <<"e", "x", "a", "m", "p", "l", "e">>
               /\ TripleNewline(call.text) => ~TripleNewline(call.out)

\* C18 as the code has it: the cleaning pass leaves the hyphenated line
\* break of "exam-\nple" as it is, and its result never holds more than two
\* newlines in a row.
C18_CleanupKeepsHyphen ==
    Cleaned => /\ (call.text = ExamPle) => call.out = ExamPle
               /\ ~TripleNewline(call.out)

\* three newlines between two words came out as two
C18_Witness ==
    /\ Cleaned
    /\ call.text = <<"a", "\n", "\n", "\n", "a">>
    /\ call.out = <<"a", "\n", "\n", "a">>

Aligned == call.fn = "_detect_alignment" /\ call.done

\* C19: a block from 0.3*W to 0.7*W is center and a block from 0.05*W to
\* 0.95*W is justify; the result is always one of left, center, right,
\* justify; a block that passes the center test (near the page centre and
\* inside both margins) and the justify test is center.
C19_Alignment ==
    Aligned =>
      /\ (10 * call.x0 = 3 * call.page_width
            /\ 10 * call.x1 = 7 * call.page_width) => call.out = "center"
      /\ (20 * call.x0 = call.page_width
            /\ 20 * call.x1 = 19 * call.page_width) => call.out = "justify"
      /\ call.out \in {"left", "center", "right", "justify"}
      /\ (/\ NearCentered(call.x0, call.x1, call.page_width,
                          call.page_center)
          /\ InsideMargins(call.x0, call.x1, call.page_width)
          /\ JustifyTest(call.x0, call.x1, call.page_width))
           => call.out = "center"

\* a block that passes the center test and the justify test came out center
C19_Witness ==
    /\ Aligned
    /\ NearCentered(call.x0, call.x1, call.page_width, call.page_center)
    /\ InsideMargins(call.x0, call.x1, call.page_width)
    /\ JustifyTest(call.x0, call.x1, call.page_width)
    /\ call.out = "center"

\* the token is a page marker
IsMarker(tok) == \E n \in 1..(MaxDocPages + 1) : tok = Marker(n)

\* the pieces of s between its page markers
RECURSIVE SplitOnMarker(_)
SplitOnMarker(s) ==
    IF \A i \in 1..Len(s) : ~IsMarker(s[i]) THEN <<s>>
    ELSE LET i == CHOOSE i \in 1..Len(s) :
                    /\ IsMarker(s[i])
                    /\ \A j \in 1..(i - 1) : ~IsMarker(s[j])
         IN <<SubSeq(s, 1, i - 1)>> \o SplitOnMarker(SubSeq(s, i + 1, Len(s)))

NonEmpty(pieces) == SelectSeq(pieces, LAMBDA q : Len(q) > 0)

NonBlank(pieces) == SelectSeq(pieces, LAMBDA q : Len(strip(q)) > 0)

\* both page texts are in s in page order with a page marker between them
InOrderWithMarker(s) ==
    \E i \in 1..Len(s), j \in 1..Len(s), k \in 1..Len(s) :
      /\ i < j
      /\ j < k
      /\ s[i] = "Page 1 text"
      /\ IsMarker(s[j])
      /\ s[k] = "Page 2 text"

ExtractedTwoPages ==
    /\ call.fn = "extract_text"
    /\ call.done
    /\ call.pages = << <<"Page 1 text">>, <<"Page 2 text">> >>

C21_ProcessingBeforeExtraction ==
    [][/\ \A d \in Ids :
            (d \in rows' /\ jpc'[d] \in {"probe", "extract"})
              => status'[d] = PROCESSING
       /\ \A d \in Ids :
            (d \in rows /\ jpc[d] \in {"probe", "extract"}
               /\ jpc'[d] # jpc[d])
              => status[d] = PROCESSING
       /\ \A r \in Reqs :
            (pc[r] # "extracting" /\ pc'[r] = "extracting")
              => /\ req'[r].doc \in rows
                 /\ status[req'[r].doc] = COMPLETED]_vars

\* the probe returned for a document that is Processing and page 0 is about
\* to be extracted
C21_Witness ==
    \E d \in rows :
      /\ jpc[d] = "extract"
      /\ jcount[d] # None
      /\ status[d] = PROCESSING

\* C22: the object get_ocr_service returns has every capability the
\* processing run and get_page look up on it: get_page_count, extract_page
\* and extract_text are methods of it, so the look-up never raises.
C22_ProviderCapabilities ==
    (call.fn = "getattr" /\ call.done) => call.out = "method"

\* C23: when two get_page requests for the same uncached page of a document
\* both missed the cache and both answer cached=false (the second may have
\* started before or after the first returned), then as the second of them
\* returns the persisted mapping holds that index with the content of this
\* last writer, and every other entry is as it was.
C23_LastWriterWins ==
    [][\A r \in Reqs, r2 \in Reqs :
         (/\ r2 # r
          /\ pc[r] = "extracting"
          /\ pc'[r] = "responded"
          /\ resp'[r].code = 200
          /\ req[r].doc \in rows
          /\ pc[r2] = "responded"
          /\ req[r2].op = "get_page"
          /\ req[r2].doc = req[r].doc
          /\ req[r2].idx = req[r].idx
          /\ resp[r2].code = 200
          /\ ~resp[r2].cached)
           => LET d == req[r].doc
                  i == req[r].idx
              IN /\ ~resp'[r].cached
                 /\ DOMAIN extracted_pages'[d] =
                      DOMAIN extracted_pages[d] \cup {i}
                 /\ extracted_pages'[d][i] = resp'[r].content
                 /\ \A k \in DOMAIN extracted_pages[d] \ {i} :
                      extracted_pages'[d][k] = extracted_pages[d][k]]_vars

\* two requests are extracting the same page of the same document
BothExtracting ==
    \E r \in Reqs, r2 \in Reqs :
      /\ r # r2
      /\ pc[r] = "extracting"
      /\ pc[r2] = "extracting"
      /\ req[r].doc = req[r2].doc
      /\ req[r].idx = req[r2].idx

Deleted(d) == d \notin rows /\ d < nextId

DeletedDuringGetPage ==
    \E d \in Ids, r \in Reqs :
      /\ Deleted(d)
      /\ pc[r] = "responded"
      /\ req[r].op = "get_page"
      /\ req[r].doc = d
      /\ ncalls[r] = 1

\* C26: with the background task run fairly, every document whose upload
\* succeeded (its task was scheduled) eventually has a terminal status,
\* Completed or Failed, unless it is deleted first; no failure of an
\* extraction step or of a commit leaves it Pending or Processing for ever.
C26_EventuallyTerminal ==
    \A d \in Ids :
      (jpc[d] = "scheduled") ~> (d \notin rows \/ status[d] \in Terminal)


\* the cleaned text of the block of the current _process_text_block call
BlockText == clean_text(JoinLines(block_text_parts(call.block.lines)))

\* the alignment detected for the block of the current call
BlockAlignment ==
    detect_alignment(call.block.x0, call.block.x1, call.page_width,
                     call.page_center)

\* the current call is a _process_text_block call that returned an element
Rendered == call.fn = "_process_text_block" /\ call.done /\ call.out # <<>>

\* the title condition of the block of the current call
BlockIsTitle ==
    \/ isupper(BlockText) /\ Len(BlockText) < 100
    \/ LargeFont(call.block.lines) /\ Len(BlockText) < 150
    \/ BlockAlignment = "center" /\ Len(BlockText) < 100

\* C24: a rendered text block is a title element when its cleaned text is
\* all uppercase and shorter than 100, or its average span font size exceeds
\* 14 and it is shorter than 150, or it is centred and shorter than 100: h2
\* when all uppercase, h3 otherwise; it is a paragraph with a strong wrapper
\* when it is no title and some span is bold, and a plain paragraph
\* otherwise; the element's text-align style is the detected alignment.
C24_BlockRendering ==
    Rendered =>
        LET tag == IF BlockIsTitle
                   THEN IF isupper(BlockText) THEN "h2" ELSE "h3"
                   ELSE "p"
            strong == ~BlockIsTitle /\ is_bold(call.block.lines)
            n == Len(call.out)
        IN /\ call.out[1] = OpenTag(tag, BlockAlignment)
           /\ call.out[n] = CloseTag(tag)
           /\ strong => call.out[2] = "<strong>" /\ call.out[n - 1] = "</strong>"
           /\ ~strong => call.out[2] # "<strong>" /\ call.out[n - 1] # "</strong>"

\* a centred lowercase block of 99 characters in a small regular font was
\* rendered as an h3 title
C24_Witness ==
    /\ Rendered
    /\ Len(BlockText) = 99
    /\ ~isupper(BlockText)
    /\ ~LargeFont(call.block.lines)
    /\ call.out[1] = OpenTag("h3", "center")

\* what one character of the cleaned text becomes in the element
EscapeChar(c) ==
    IF c = "&" THEN Amp
    ELSE IF c = "<" THEN Lt
    ELSE IF c = ">" THEN Gt
    ELSE IF c = "\n" THEN Br
    ELSE <<c>>

\* the characters between the opening and closing tags of an element
Inner(out) ==
    IF out[2] = "<strong>" THEN SubSeq(out, 3, Len(out) - 2)
    ELSE SubSeq(out, 2, Len(out) - 1)

\* C25: in a rendered element every ampersand, less-than and greater-than
\* of the cleaned block text is escaped exactly once and every newline is a
\* line break: the element's content is the cleaned text with each character
\* replaced by its own escape, nothing raw and nothing escaped twice.
C25_EscapedOnce ==
    Rendered =>
        Inner(call.out) =
            Concat([i \in 1..Len(BlockText) |-> EscapeChar(BlockText[i])])

\* a block whose cleaned text is a less-than, a newline and an ampersand
\* was rendered
C25_Witness == Rendered /\ BlockText = <<"<", "\n", "&">>

====
